---- MODULE Spec2Model ----
(***************************************************************************)
(* Model of the maud runtime (src/maud/src/lib.rs): the Escaper writer     *)
(* adapter, escape(), Markup and its three render paths, and the rt entry  *)
(* points.  Text is a sequence of one-character strings.  A writer is a    *)
(* record; every write_str returns the writer after the call and the       *)
(* result of the call.                                                     *)
(***************************************************************************)
EXTENDS Integers, Sequences, FiniteSets, TLC

VARIABLES
    escIn,      \* escape(): the argument s of the last call (NoText before any)
    escBuf,     \* escape(): the String `buf` after the Escaper wrote into it
    escOut,     \* escape(): the returned String
    escTwice,   \* escape(escOut), once it was computed (NoText before)
    escaper,    \* a live rt::Escaper (its `inner` is the wrapped writer)
    calls,      \* the write_str calls made on `escaper`: [s, res, from]
    markup,     \* a Markup value: [callback |-> ...]
    ioW,        \* the io Writer the last Markup::render wrote to
    ioRet,      \* the IoResult the last Markup::render returned
    ioFmt,      \* what the callback saw in that render: [w, res] of render_fmt
    fmtW,       \* the fmt::Writer the last Markup::render_fmt wrote to
    fmtRet,     \* the fmt::Result the last Markup::render_fmt returned
    replays     \* renders into always-succeeding writers: [op, log, text]

vars == <<escIn, escBuf, escOut, escTwice, escaper, calls,
          markup, ioW, ioRet, ioFmt, fmtW, fmtRet, replays>>

escapeVars == <<escIn, escBuf, escOut, escTwice>>
escaperVars == <<escaper, calls>>
renderVars == <<ioW, ioRet, ioFmt, fmtW, fmtRet>>

----------------------------------------------------------------------------
(* Bounds *)

MaxLen == 3         \* longest argument of escape()
MaxFragLen == 2     \* longest fragment written to a live Escaper
MaxCalls == 3       \* write_str calls on one Escaper
MaxFailAt == 3      \* a failing writer fails on offer 1..MaxFailAt (0: never)
MaxStmts == 2       \* statements of a wrapped operation
MaxReplays == 2     \* renders of one Markup into always-succeeding writers

----------------------------------------------------------------------------
(* Text *)

Specials == {"&", "<", ">", "\"", "'"}
Alphabet == Specials \cup {"a", ";"}

RECURSIVE TextsOfLen(_, _)
TextsOfLen(chars, n) ==
    IF n = 0 THEN {<< >>}
    ELSE {<<c>> \o t : c \in chars, t \in TextsOfLen(chars, n - 1)}

TextsUpTo(chars, n) == UNION {TextsOfLen(chars, k) : k \in 0..n}

RECURSIVE Flatten(_)
Flatten(frags) ==
    IF frags = << >> THEN << >> ELSE Head(frags) \o Flatten(Tail(frags))

NoText == <<"(none)">>
Panic == <<"(panic)">>

----------------------------------------------------------------------------
(* Results: fmt::Result and IoResult<()> *)

Ok == [ok |-> TRUE, kind |-> "", desc |-> "", detail |-> ""]
FmtError == [ok |-> FALSE, kind |-> "fmt::Error", desc |-> "", detail |-> ""]
NoResult == [ok |-> FALSE, kind |-> "(none)", desc |-> "", detail |-> ""]
IoErrorKinds == {"EndOfFile", "ShortWrite"}
WriterIoError(kind) ==
    [ok |-> FALSE, kind |-> kind, desc |-> "writer failure", detail |-> "Some"]

(* lib.rs 189-193: the IoError render builds. *)
RenderIoError ==
    [ok |-> FALSE, kind |-> "OtherIoError", desc |-> "formatting error",
     detail |-> "None"]

----------------------------------------------------------------------------
(* Writer capabilities.  A sink records every fragment it is offered (log) *)
(* and the text it accepted (buf); it rejects offer number failAt.         *)

Sink(failAt) ==
    [type |-> "Sink", log |-> << >>, buf |-> << >>, failAt |-> failAt]
String == Sink(0)
IoWriter(failAt, kind) ==
    [type |-> "Io", log |-> << >>, buf |-> << >>, failAt |-> failAt,
     kind |-> kind]

Offer(w, s) ==
    IF w.failAt = Len(w.log) + 1
    THEN [w EXCEPT !.log = Append(@, s)]
    ELSE [w EXCEPT !.log = Append(@, s), !.buf = @ \o s]

Rejects(w) == w.failAt = Len(w.log) + 1

Sink_write_str(w, s) ==
    [w |-> Offer(w, s), res |-> IF Rejects(w) THEN FmtError ELSE Ok]

Io_write_str(w, s) ==
    [w |-> Offer(w, s),
     res |-> IF Rejects(w) THEN WriterIoError(w.kind) ELSE Ok]

(* lib.rs 180-182, 188 *)
WriterWrapper(w) == [type |-> "WriterWrapper", calls |-> << >>, inner |-> w]

(* Variants of WriterWrapper::write_str: the failure is swallowed; the     *)
(* fragment is forwarded twice.                                            *)
WriterWrapper_write_str_Swallow(ww, s) ==
    LET r == Io_write_str(ww.inner, s)
    IN  [w |-> [ww EXCEPT !.calls = Append(@, s), !.inner = r.w], res |-> Ok]

WriterWrapper_write_str_Twice(ww, s) ==
    LET r1 == Io_write_str(ww.inner, s)
        r2 == Io_write_str(r1.w, s)
    IN  [w |-> [ww EXCEPT !.calls = Append(@, s), !.inner = r2.w],
         res |-> IF r1.res.ok /\ r2.res.ok THEN Ok ELSE FmtError]

(* lib.rs 184-186: self.inner.write_str(s).map_err(|_| fmt::Error) *)
WriterWrapper_write_str(ww, s) ==
    LET r == Io_write_str(ww.inner, s)
    IN  [w |-> [ww EXCEPT !.calls = Append(@, s), !.inner = r.w],
         res |-> IF r.res.ok THEN Ok ELSE FmtError]

(* lib.rs 234-236 *)
Escaper(w) == [type |-> "Escaper", inner |-> w]

Amp == <<"&", "a", "m", "p", ";">>
Lt == <<"&", "l", "t", ";">>
Gt == <<"&", "g", "t", ";">>
Quot == <<"&", "q", "u", "o", "t", ";">>
Apos == <<"&", "#", "3", "9", ";">>

RECURSIVE write_str(_, _)
RECURSIVE Escaper_write_str(_, _)
RECURSIVE Escaper_write_str_NoTry(_, _)

(* write!(w, "{}", value): the value's Display text goes to w.write_str.   *)
(* The macro is taken to make one write_str call, carrying that text; how  *)
(* the formatting machinery of the standard library splits it is not part  *)
(* of lib.rs.                                                              *)
WriteDisplay(w, value) == write_str(w, value)

(* Variants of the match: the '>' arm is missing; the '"' arm is missing;  *)
(* the '&' arm is missing.                                                 *)
EscaperForward_NoGt(inner, c) ==
    CASE c = "&" -> write_str(inner, Amp)
      [] c = "<" -> write_str(inner, Lt)
      [] c = "\"" -> write_str(inner, Quot)
      [] c = "'" -> write_str(inner, Apos)
      [] OTHER -> WriteDisplay(inner, <<c>>)

EscaperForward_NoQuot(inner, c) ==
    CASE c = "&" -> write_str(inner, Amp)
      [] c = "<" -> write_str(inner, Lt)
      [] c = ">" -> write_str(inner, Gt)
      [] c = "'" -> write_str(inner, Apos)
      [] OTHER -> WriteDisplay(inner, <<c>>)

EscaperForward_NoAmp(inner, c) ==
    CASE c = "<" -> write_str(inner, Lt)
      [] c = ">" -> write_str(inner, Gt)
      [] c = "\"" -> write_str(inner, Quot)
      [] c = "'" -> write_str(inner, Apos)
      [] OTHER -> WriteDisplay(inner, <<c>>)

(* lib.rs 241-248: the match on one character, forwarded to self.inner. *)
EscaperForward(inner, c) ==
    CASE c = "&" -> write_str(inner, Amp)
      [] c = "<" -> write_str(inner, Lt)
      [] c = ">" -> write_str(inner, Gt)
      [] c = "\"" -> write_str(inner, Quot)
      [] c = "'" -> write_str(inner, Apos)
      [] OTHER -> WriteDisplay(inner, <<c>>)

(* Variants of Escaper::write_str: the result of a forward is kept but the *)
(* loop goes on (no try!); an empty fragment is forwarded as a fragment.   *)
Escaper_write_str_NoTry(e, s) ==
    IF s = << >> THEN [w |-> e, res |-> Ok]
    ELSE LET r == EscaperForward(e.inner, Head(s))
             rest == Escaper_write_str_NoTry([e EXCEPT !.inner = r.w], Tail(s))
         IN  [w |-> rest.w, res |-> IF r.res.ok THEN rest.res ELSE r.res]

Escaper_write_str_EmptyForward(e, s) ==
    IF s = << >>
    THEN LET r == write_str(e.inner, << >>)
         IN  [w |-> [e EXCEPT !.inner = r.w], res |-> r.res]
    ELSE LET r == EscaperForward(e.inner, Head(s))
         IN  IF ~r.res.ok \/ Tail(s) = << >>
             THEN [w |-> [e EXCEPT !.inner = r.w], res |-> r.res]
             ELSE Escaper_write_str([e EXCEPT !.inner = r.w], Tail(s))

(* lib.rs 239-251: for c in s.chars() { try!(...) } Ok(()) *)
Escaper_write_str(e, s) ==
    IF s = << >> THEN [w |-> e, res |-> Ok]
    ELSE LET r == EscaperForward(e.inner, Head(s))
         IN  IF ~r.res.ok
             THEN [w |-> [e EXCEPT !.inner = r.w], res |-> r.res]
             ELSE Escaper_write_str([e EXCEPT !.inner = r.w], Tail(s))

(* Dynamic dispatch of fmt::Writer::write_str on the writer's type. *)
write_str(w, s) ==
    CASE w.type = "Escaper" -> Escaper_write_str(w, s)
      [] w.type = "WriterWrapper" -> WriterWrapper_write_str(w, s)
      [] OTHER -> Sink_write_str(w, s)

(* lib.rs 162-167 *)
escapeBuf(s) == write_str(Escaper(String), s)
escape(s) ==
    LET r == escapeBuf(s)
    IN  IF r.res.ok THEN r.w.inner.buf ELSE Panic

----------------------------------------------------------------------------
(* Markup.  The wrapped operation F: Fn(&mut fmt::Writer) -> fmt::Result   *)
(* is a list of statements run in order against the writer w:              *)
(*   lit        try!(w.write_str(text))                                    *)
(*   raw        try!(rt::write_fmt(w, text))                               *)
(*   esc        try!(rt::write_fmt(&mut rt::Escaper { inner: w }, text))   *)
(*   unchecked  let _ = w.write_str(text);                                 *)
(*   fail       return Err(fmt::Error)                                     *)
(* followed by Ok(()).  The operation is an argument of rt::make_markup:   *)
(* any closure of that type, so one that discards a write result too.      *)

Stmt(kind, text) == [kind |-> kind, text |-> text]

(* lib.rs 218-222 *)
make_markup(f) == [callback |-> f]

(* Variant of rt::write_fmt: the value is escaped on the way. *)
write_fmt_Escaping(w, value) ==
    LET r == write_str(Escaper(w), value)
    IN  [w |-> r.w.inner, res |-> r.res]

(* lib.rs 230-232: write!(w, "{}", value) *)
write_fmt(w, value) == WriteDisplay(w, value)

RunStmt(st, w) ==
    CASE st.kind = "lit" -> write_str(w, st.text)
      [] st.kind = "raw" -> write_fmt(w, st.text)
      [] st.kind = "esc" ->
            LET r == write_fmt(Escaper(w), st.text)
            IN  [w |-> r.w.inner, res |-> r.res]
      [] st.kind = "unchecked" ->
            [w |-> write_str(w, st.text).w, res |-> Ok]
      [] OTHER -> [w |-> w, res |-> FmtError]

RECURSIVE Call(_, _)
Call(f, w) ==
    IF f = << >> THEN [w |-> w, res |-> Ok]
    ELSE LET r == RunStmt(Head(f), w)
         IN  IF ~r.res.ok THEN r ELSE Call(Tail(f), r.w)

(* lib.rs 197-199 *)
Markup_render_fmt(m, w) == Call(m.callback, w)

(* Variant of the adaptation: the IoError carries a detail. *)
MapErrToIo_Detail(res) ==
    IF res.ok THEN Ok ELSE [RenderIoError EXCEPT !.detail = "Some"]

(* lib.rs 188-193: the adaptation of the failure value. *)
MapErrToIo(res) == IF res.ok THEN Ok ELSE RenderIoError

(* lib.rs 179-194; `fmt` is what render_fmt did with the WriterWrapper. *)
Markup_render(m, w) ==
    LET r == Markup_render_fmt(m, WriterWrapper(w))
    IN  [w |-> r.w.inner, res |-> MapErrToIo(r.res), fmt |-> r]

(* lib.rs 203-207 *)
Markup_to_string(m) ==
    LET r == Markup_render_fmt(m, String)
    IN  IF r.res.ok THEN r.w.buf ELSE Panic

----------------------------------------------------------------------------
(* Inputs *)

EscapeInputs == TextsUpTo(Alphabet, MaxLen)

(* Fragments for a live Escaper: every special character, one fragment    *)
(* holding several of them, one that is already an entity, and all short  *)
(* texts over two characters.                                             *)
Fragments ==
    TextsUpTo({"&", "a"}, MaxFragLen)
        \cup {<<c>> : c \in Specials}
        \cup {<<"<", "'", "\"", ">">>, <<"&", "a", "m", "p", ";">>}

MarkupTexts == {<<"<", "b", ">">>, <<"a", "&">>}
Stmts ==
    {Stmt(k, t) : k \in {"lit", "raw", "esc", "unchecked"}, t \in MarkupTexts}
        \cup {Stmt("fail", << >>)}

RECURSIVE StmtSeqs(_)
StmtSeqs(n) ==
    IF n = 0 THEN {<< >>}
    ELSE {<<st>> \o f : st \in Stmts, f \in StmtSeqs(n - 1)}

(* lib.rs 26-54 and the rendering example: <p>, an escaped value, </p>. *)
TagOpen == <<"<", "p", ">">>
TagClose == <<"<", "/", "p", ">">>
HiLyra == <<"H", "i", ",", " ", "L", "y", "r", "a", "!">>
BoldTag == <<"<", "b", ">">>
Paragraph(v) == <<Stmt("lit", TagOpen), Stmt("esc", v), Stmt("lit", TagClose)>>

Callbacks ==
    UNION {StmtSeqs(n) : n \in 0..MaxStmts}
        \cup {Paragraph(HiLyra), Paragraph(BoldTag)}

----------------------------------------------------------------------------
(* State machine *)

EscapeInit(inputs) ==
    /\ escIn \in inputs
    /\ escBuf = String
    /\ escOut = NoText
    /\ escTwice = NoText

EscaperInit(failAts) ==
    /\ escaper \in {Escaper(Sink(n)) : n \in failAts}
    /\ calls = << >>

MarkupInit(callbacks) ==
    /\ markup \in {make_markup(f) : f \in callbacks}
    /\ ioW = IoWriter(0, "EndOfFile")
    /\ ioRet = NoResult
    /\ ioFmt = [w |-> WriterWrapper(IoWriter(0, "EndOfFile")), res |-> NoResult]
    /\ fmtW = Sink(0)
    /\ fmtRet = NoResult
    /\ replays = << >>

(* let out = escape(escIn) *)
Escape ==
    /\ escOut = NoText
    /\ escBuf' = escapeBuf(escIn).w.inner
    /\ escOut' = escape(escIn)
    /\ UNCHANGED <<escIn, escTwice, escaperVars, markup, renderVars, replays>>

(* escape(out) *)
EscapeAgain ==
    /\ escOut # NoText
    /\ escTwice = NoText
    /\ escTwice' = escape(escOut)
    /\ UNCHANGED <<escIn, escBuf, escOut, escaperVars, markup, renderVars,
                   replays>>

(* escaper.write_str(s) *)
EscaperWrite(s) ==
    /\ Len(calls) < MaxCalls
    /\ LET r == write_str(escaper, s)
       IN  /\ escaper' = r.w
           /\ calls' = Append(calls, [s |-> s, res |-> r.res,
                                      from |-> Len(escaper.inner.log)])
    /\ UNCHANGED <<escapeVars, markup, renderVars, replays>>

(* markup.render(&mut w) for an io Writer w *)
Render(failAt, kind) ==
    /\ LET r == Markup_render(markup, IoWriter(failAt, kind))
       IN  /\ ioW' = r.w
           /\ ioRet' = r.res
           /\ ioFmt' = r.fmt
    /\ UNCHANGED <<escapeVars, escaperVars, markup, fmtW, fmtRet, replays>>

(* markup.render_fmt(&mut w) for a fmt::Writer w *)
RenderFmt(failAt) ==
    /\ LET r == Markup_render_fmt(markup, Sink(failAt))
       IN  /\ fmtW' = r.w
           /\ fmtRet' = r.res
    /\ UNCHANGED <<escapeVars, escaperVars, markup, ioW, ioRet, ioFmt, replays>>

(* Renders of the same Markup into fresh writers that never fail. *)
ReplayRender ==
    /\ Len(replays) < MaxReplays
    /\ LET r == Markup_render(markup, IoWriter(0, "EndOfFile"))
       IN  replays' = Append(replays, [op |-> "render", ok |-> r.res.ok,
                                       log |-> r.w.log, text |-> r.w.buf])
    /\ UNCHANGED <<escapeVars, escaperVars, markup, renderVars>>

(* Variant of a replayed render_fmt: the render consumes the first         *)
(* statement of the wrapped operation.                                     *)
ReplayRenderFmt_Consuming ==
    /\ Len(replays) < MaxReplays
    /\ LET r == Markup_render_fmt(markup, Sink(0))
       IN  replays' = Append(replays, [op |-> "render_fmt", ok |-> r.res.ok,
                                       log |-> r.w.log, text |-> r.w.buf])
    /\ markup' = IF markup.callback = << >> THEN markup
                 ELSE make_markup(Tail(markup.callback))
    /\ UNCHANGED <<escapeVars, escaperVars, renderVars>>

ReplayRenderFmt ==
    /\ Len(replays) < MaxReplays
    /\ LET r == Markup_render_fmt(markup, Sink(0))
       IN  replays' = Append(replays, [op |-> "render_fmt", ok |-> r.res.ok,
                                       log |-> r.w.log, text |-> r.w.buf])
    /\ UNCHANGED <<escapeVars, escaperVars, markup, renderVars>>

ReplayToString ==
    /\ Len(replays) < MaxReplays
    /\ LET r == Markup_render_fmt(markup, String)
       IN  replays' = Append(replays, [op |-> "to_string", ok |-> r.res.ok,
                                       log |-> r.w.log,
                                       text |-> Markup_to_string(markup)])
    /\ UNCHANGED <<escapeVars, escaperVars, markup, renderVars>>

NextEscape == Escape \/ EscapeAgain

NextEscaper == \E s \in Fragments : EscaperWrite(s)

NextRender ==
    \/ \E n \in 0..MaxFailAt, k \in IoErrorKinds : Render(n, k)
    \/ \E n \in 0..MaxFailAt : RenderFmt(n)

NextReplay == ReplayRender \/ ReplayRenderFmt \/ ReplayToString

InitEscape ==
    EscapeInit(EscapeInputs) /\ EscaperInit({0}) /\ MarkupInit({<< >>})
InitEscaper ==
    EscapeInit({<< >>}) /\ EscaperInit(0..MaxFailAt) /\ MarkupInit({<< >>})
InitMarkup ==
    EscapeInit({<< >>}) /\ EscaperInit({0}) /\ MarkupInit(Callbacks)

SpecEscape == InitEscape /\ [][NextEscape]_vars
SpecEscaper == InitEscaper /\ [][NextEscaper]_vars
SpecRender == InitMarkup /\ [][NextRender]_vars
SpecReplay == InitMarkup /\ [][NextReplay]_vars

----------------------------------------------------------------------------
(* The escape table as the specification states it, and what it says of   *)
(* a text.                                                                 *)

Image(c) ==
    CASE c = "&" -> <<"&", "a", "m", "p", ";">>
      [] c = "<" -> <<"&", "l", "t", ";">>
      [] c = ">" -> <<"&", "g", "t", ";">>
      [] c = "\"" -> <<"&", "q", "u", "o", "t", ";">>
      [] c = "'" -> <<"&", "#", "3", "9", ";">>
      [] OTHER -> <<c>>

Images(s) == [i \in 1..Len(s) |-> Image(s[i])]

NoSpecial(s) == \A i \in 1..Len(s) : s[i] \notin {"&", "<", ">", "\"", "'"}

Entities == {Image(c) : c \in {"&", "<", ">", "\"", "'"}}

StartsAt(text, p, e) ==
    /\ p + Len(e) - 1 <= Len(text)
    /\ SubSeq(text, p, p + Len(e) - 1) = e

MarkupSafe(text) ==
    \A p \in 1..Len(text) :
        /\ text[p] \notin {"<", ">", "\"", "'"}
        /\ text[p] = "&" => \E e \in Entities : StartsAt(text, p, e)

(* The offers the k-th write_str call on `escaper` made to the wrapped    *)
(* writer: numbers CallFrom(k)+1 .. CallTo(k) of its log.                  *)
CallFrom(k) == calls[k].from
CallTo(k) == IF k < Len(calls) THEN calls[k + 1].from ELSE Len(escaper.inner.log)
CallOffers(k) == SubSeq(escaper.inner.log, CallFrom(k) + 1, CallTo(k))

Accepted(w) ==
    Flatten([i \in 1..Len(w.log) |-> IF i = w.failAt THEN << >> ELSE w.log[i]])

----------------------------------------------------------------------------
(* C1: escape(s), which is the text an Escaper forwards to its wrapped    *)
(* writer for one successful write_str(s), is the in-order concatenation  *)
(* of the images of the characters of s under the five-entry table; a     *)
(* text without special characters comes back unchanged.                  *)
C1_EscapeIsImageConcat ==
    escOut # NoText =>
        /\ escOut = Flatten(Images(escIn))
        /\ Flatten(escBuf.log) = Flatten(Images(escIn))
        /\ NoSpecial(escIn) => escOut = escIn

C1_Witness ==
    /\ escIn = <<"<", "a", ">">>
    /\ escOut = <<"&", "l", "t", ";", "a", "&", "g", "t", ";">>

(* C2: after any sequence of write_str calls on an Escaper, the text that *)
(* reached the wrapped writer holds none of the characters less-than,     *)
(* greater-than, double quote and single quote, and every ampersand in it *)
(* starts one of the five entities.                                        *)
C2_OutputIsMarkupSafe ==
    /\ MarkupSafe(Flatten(escaper.inner.log))
    /\ MarkupSafe(escaper.inner.buf)
    /\ \A i \in 1..Len(escaper.inner.log) : MarkupSafe(escaper.inner.log[i])

C2_Witness ==
    /\ Len(calls) = 2
    /\ calls[1].s = <<"&", "a", "m", "p", ";">>
    /\ calls[2].s = <<"<", "'", "\"", ">">>
    /\ escaper.inner.failAt = 0
    /\ Len(escaper.inner.buf) = 28

(* C4: Escaper.write_str(s) succeeds iff every forward succeeds; when the *)
(* forward for the character at position i fails it returns that failure  *)
(* at once: the wrapped writer was offered the images of characters 0..i  *)
(* in order and nothing for a later character, and what it accepted       *)
(* before stays written.                                                   *)
C4_EscaperFailFast ==
    /\ \A k \in 1..Len(calls) :
        LET n == CallTo(k) - CallFrom(k)
            failed == escaper.inner.failAt \in (CallFrom(k) + 1)..CallTo(k)
        IN  /\ calls[k].res.ok <=> ~failed
            /\ calls[k].res.ok => CallOffers(k) = Images(calls[k].s)
            /\ ~calls[k].res.ok =>
                /\ calls[k].res = FmtError
                /\ n >= 1
                /\ n <= Len(calls[k].s)
                /\ escaper.inner.failAt = CallTo(k)
                /\ CallOffers(k) = SubSeq(Images(calls[k].s), 1, n)
    /\ escaper.inner.buf = Accepted(escaper.inner)

C4_Witness ==
    /\ Len(calls) = 1
    /\ calls[1].s = <<"<", "'", "\"", ">">>
    /\ ~calls[1].res.ok
    /\ escaper.inner.failAt = 2
    /\ escaper.inner.log = <<Lt, Apos>>
    /\ escaper.inner.buf = Lt

(* C8: escape is not idempotent: escape(escape("&")) is "&amp;amp;", not  *)
(* "&amp;"; escape(escape(s)) = escape(s) exactly when s holds none of    *)
(* the five special characters.                                            *)
C8_NotIdempotent ==
    escTwice # NoText =>
        /\ (escTwice = escOut) <=> NoSpecial(escIn)
        /\ escIn = <<"&">> =>
            /\ escOut = <<"&", "a", "m", "p", ";">>
            /\ escTwice = <<"&", "a", "m", "p", ";", "a", "m", "p", ";">>

C8_Witness ==
    /\ escIn = <<"&">>
    /\ escTwice = <<"&", "a", "m", "p", ";", "a", "m", "p", ";">>

(* C9: escaping does not depend on how the text is split into fragments:  *)
(* after write_str(s1); ...; write_str(sk) on one Escaper over a writer   *)
(* that never fails, the writer holds escape(s1 ++ ... ++ sk), which is   *)
(* escape(s1) ++ ... ++ escape(sk); an empty fragment forwards nothing    *)
(* and succeeds.                                                           *)
C9_SplitIndependent ==
    /\ escaper.inner.failAt = 0 =>
        /\ escaper.inner.buf = escape(Flatten([k \in 1..Len(calls) |-> calls[k].s]))
        /\ escaper.inner.buf = Flatten([k \in 1..Len(calls) |-> escape(calls[k].s)])
    /\ \A k \in 1..Len(calls) :
        calls[k].s = << >> => calls[k].res.ok /\ CallTo(k) = CallFrom(k)

C9_Witness ==
    /\ escaper.inner.failAt = 0
    /\ Len(calls) = 3
    /\ calls[1].s = <<"a", "&">>
    /\ calls[2].s = << >>
    /\ calls[3].s = <<"<">>
    /\ escaper.inner.buf = <<"a", "&", "a", "m", "p", ";", "&", "l", "t", ";">>

----------------------------------------------------------------------------
(* What the specification says of a wrapped operation.                    *)

(* The operation returns at its first failed write. *)
FailFast(f) == \A i \in 1..Len(f) : f[i].kind # "unchecked"

(* The operation only writes. *)
OnlyWrites(f) == \A i \in 1..Len(f) : f[i].kind # "fail"

(* The fragments the operation writes when no write fails. *)
FullLog(m) == Markup_render_fmt(m, Sink(0)).w.log

(* Each piece as the output shows it: escaped if routed through an        *)
(* Escaper, verbatim otherwise.                                            *)
Pieces(f) ==
    [i \in 1..Len(f) |->
        IF f[i].kind = "esc" THEN escape(f[i].text) ELSE f[i].text]

Rendered == ioRet # NoResult
WriterFailed == ioW.failAt >= 1 /\ Len(ioW.log) >= ioW.failAt

(* C3 as stated: for any Markup and any writer that fails on the Nth      *)
(* fragment offered to it during render, render returns a failure and the *)
(* writer is offered no fragment after the Nth: it saw exactly the first  *)
(* N fragments the wrapped operation writes, in order.                    *)
C3_AnyMarkupFailFast ==
    (Rendered /\ WriterFailed) =>
        /\ ~ioRet.ok
        /\ Len(ioW.log) = ioW.failAt
        /\ ioW.log = SubSeq(FullLog(markup), 1, ioW.failAt)

(* C3 amended: the same for any Markup whose wrapped operation returns at *)
(* its first failed write (it discards no write result).                  *)
C3_FailFastMarkup ==
    (Rendered /\ WriterFailed /\ FailFast(markup.callback)) =>
        /\ ~ioRet.ok
        /\ Len(ioW.log) = ioW.failAt
        /\ ioW.log = SubSeq(FullLog(markup), 1, ioW.failAt)

C3_Witness ==
    /\ Rendered
    /\ markup.callback = Paragraph(BoldTag)
    /\ ioW.failAt = 2
    /\ ioW.log = <<TagOpen, Lt>>
    /\ ~ioRet.ok

(* C5: render returns success exactly when the wrapped operation does;    *)
(* for every formatting failure of the operation, whatever its origin and *)
(* whatever the writer's own failure was, render returns the one IoError  *)
(* of kind OtherIoError, description "formatting error", no detail.       *)
C5_RenderFailureIsFixed ==
    Rendered =>
        /\ ioRet.ok <=> ioFmt.res.ok
        /\ ~ioRet.ok =>
            ioRet = [ok |-> FALSE, kind |-> "OtherIoError",
                     desc |-> "formatting error", detail |-> "None"]
        /\ ioRet.kind \notin IoErrorKinds

C5_Witness ==
    /\ Rendered
    /\ ioW.kind = "ShortWrite"
    /\ WriterFailed
    /\ ioRet.kind = "OtherIoError"
    /\ ioRet.desc = "formatting error"

(* C10: render adapts render_fmt transparently: the io writer is offered  *)
(* exactly the fragments the wrapped operation writes, in order, each     *)
(* unchanged, and they are the fragments render_fmt delivers to a         *)
(* formatter sink that fails at the same offer; the two paths differ in   *)
(* the failure value only.                                                 *)
C10_RenderIsTransparent ==
    Rendered =>
        /\ ioW.log = ioFmt.w.calls
        /\ (fmtRet # NoResult /\ fmtW.failAt = ioW.failAt) =>
            /\ fmtW.log = ioW.log
            /\ fmtW.buf = ioW.buf
            /\ fmtRet.ok = ioRet.ok
            /\ ~fmtRet.ok => fmtRet = FmtError /\ ioRet = RenderIoError

C10_Witness ==
    /\ Rendered
    /\ fmtRet = FmtError
    /\ fmtW.failAt = 3
    /\ ioW.failAt = 3
    /\ Len(ioW.log) = 3
    /\ ioFmt.w.calls = ioW.log

(* C6: rendering is replayable: every render of one Markup into a fresh   *)
(* writer that never fails delivers the same fragment sequence and the    *)
(* same text, and to_string called twice returns the same text; an        *)
(* earlier render does not affect a later one.                            *)
C6_ReplayConsistent ==
    \A i, j \in 1..Len(replays) :
        /\ replays[i].log = replays[j].log
        /\ replays[i].ok = replays[j].ok
        /\ replays[i].ok => replays[i].text = replays[j].text
        /\ replays[i].op = replays[j].op => replays[i].text = replays[j].text
        /\ replays[i].text \in {Flatten(replays[i].log), Panic}

C6_Witness ==
    /\ Len(replays) = 2
    /\ replays[1].op = "to_string"
    /\ replays[2].op = "to_string"
    /\ replays[1].text = replays[2].text
    /\ Len(replays[1].log) = 3
    /\ replays[1].ok

(* C7: to_string of a Markup whose wrapped operation only writes is the   *)
(* concatenation, in call order, of its pieces: verbatim for a direct     *)
(* write (a literal, or a value through rt::write_fmt), escaped for a     *)
(* value routed through an Escaper.  The paragraph example renders to     *)
(* <p>Hi, Lyra!</p>, and to <p>&lt;b&gt;</p> for the value <b>.           *)
C7_ToStringConcatenatesPieces ==
    \A i \in 1..Len(replays) :
        replays[i].op = "to_string" =>
            /\ OnlyWrites(markup.callback) =>
                replays[i].text = Flatten(Pieces(markup.callback))
            /\ markup.callback = Paragraph(HiLyra) =>
                replays[i].text =
                    <<"<", "p", ">", "H", "i", ",", " ", "L", "y", "r", "a",
                      "!", "<", "/", "p", ">">>
            /\ markup.callback = Paragraph(BoldTag) =>
                replays[i].text =
                    <<"<", "p", ">", "&", "l", "t", ";", "b", "&", "g", "t",
                      ";", "<", "/", "p", ">">>

C7_Witness ==
    /\ Len(replays) >= 1
    /\ replays[1].op = "to_string"
    /\ markup.callback = Paragraph(BoldTag)
    /\ Len(replays[1].text) = 16

====
